---- MODULE Spec2Model ----
(***************************************************************************)
(* Model of tapo's ColorLightSetDeviceInfoParams builder                   *)
(* (src/tapo/src/requests/set_device_info/color_light.rs): the staged      *)
(* Option fields, the chained setters, validate() and the terminal send()  *)
(* that hands the serialized payload to the ApiClientExt capability.       *)
(***************************************************************************)
EXTENDS Integers, Sequences, FiniteSets, TLC

\* ------------------------------------------------------------------------
\* Bounds of the exploration and integer widths
\* ------------------------------------------------------------------------

\* how far around each range limit the setters' arguments are sampled
Margin == 2

U8Max == 255

U16Max == 65535

Near(b) == {x \in (b - Margin)..(b + Margin) : x >= 0}

\* arguments of brightness(value: u8)
BrightnessValues == Near(1) \cup {50} \cup Near(100) \cup {U8Max}

\* arguments of hue_saturation(hue: u16, _)
HueValues == Near(1) \cup {50} \cup Near(360) \cup {U16Max}

\* arguments of hue_saturation(_, saturation: u8)
SaturationValues == Near(1) \cup {50} \cup Near(100) \cup {U8Max}

\* arguments of color_temperature(value: u16)
TemperatureValues == Near(1) \cup Near(2500) \cup {3000} \cup Near(6500) \cup {U16Max}

\* ------------------------------------------------------------------------
\* Option<T> and Result<(), Error>
\* ------------------------------------------------------------------------

None == <<>>

Some(v) == <<v>>

is_none(o) == o = None

is_some(o) == o # None

unwrap_or(o, d) == IF is_none(o) THEN d ELSE o[1]

\* u8 / u16 / bool default is 0
unwrap_or_default(o) == unwrap_or(o, 0)

Ok == [tag |-> "Ok"]

Validation(f, m) == [tag |-> "Validation", field |-> f, message |-> m]

\* an error produced by the capability (transport / remote), opaque here
CapabilityError == [tag |-> "Capability"]

\* what ApiClientExt::set_device_info may return
CapabilityResults == {Ok, CapabilityError}

\* ------------------------------------------------------------------------
\* Named colors (crate::requests::color)
\* ------------------------------------------------------------------------

Color == {"WarmWhite", "Daylight", "BlueViolet", "Unlit"}

\* triple of optional wire values per named color
COLOR_MAP ==
    [c \in Color |->
        CASE c = "WarmWhite"  -> <<Some(0), Some(100), Some(3000)>>
          [] c = "Daylight"   -> <<Some(0), Some(100), Some(5000)>>
          [] c = "BlueViolet" -> <<Some(271), Some(76), Some(0)>>
          [] c = "Unlit"      -> <<None, None, Some(2700)>>]

\* ------------------------------------------------------------------------
\* State
\* ------------------------------------------------------------------------

VARIABLES
    self,         \* the builder's staged fields (the struct, client excluded)
    pc,           \* "building" | "awaiting" (send suspended on the capability) | "done"
    sent,         \* payloads handed to client.set_device_info by this builder
    cap_result,   \* what the capability call returned, None while not returned
    result,       \* what send() returned, None while not returned
    mode_call,    \* the most recent lighting-mode setter call of the chain, None if none
    prev_mode,    \* which lighting-mode setter the chain called before that one, "none" if none
    power_call,   \* the chain's most recent power call, "on" or "off", None if none
    brightness_call, \* the argument of the chain's most recent brightness() call, None if none
    overwritten,  \* a setter call replaced the out-of-range argument of an earlier call of
                  \* the same setter with an in-range one
    response,     \* a default-state response being deserialized, None if none
    parsed        \* what deserializing it gave, None while not deserialized

builder_vars ==
    <<self, pc, sent, cap_result, result, mode_call, prev_mode, power_call, brightness_call,
      overwritten>>

response_vars == <<response, parsed>>

vars == <<builder_vars, response_vars>>

\* ColorLightSetDeviceInfoParams::new
new ==
    [device_on         |-> None,
     brightness        |-> None,
     hue               |-> None,
     saturation        |-> None,
     color_temperature |-> None]

\* ------------------------------------------------------------------------
\* Setters (each consumes the builder and returns the updated one)
\* ------------------------------------------------------------------------

on(p) == [p EXCEPT !.device_on = Some(TRUE)]

off(p) == [p EXCEPT !.device_on = Some(FALSE)]

\* variant: an out-of-range staged brightness is never replaced
brightness_sticky(p, value) ==
    IF is_some(p.brightness) /\ ~(p.brightness[1] \in 1..100)
        THEN p
        ELSE [p EXCEPT !.brightness = Some(value)]

\* variant: brightness also switches the device on
brightness_turns_on(p, value) ==
    [p EXCEPT !.brightness = Some(value), !.device_on = Some(TRUE)]

brightness(p, value) == [p EXCEPT !.brightness = Some(value)]

\* variant: a component absent from the triple keeps its earlier value
color_keeps_absent(p, c) ==
    LET t == COLOR_MAP[c]
    IN  [p EXCEPT !.hue = IF is_none(t[1]) THEN @ ELSE t[1],
                  !.saturation = IF is_none(t[2]) THEN @ ELSE t[2],
                  !.color_temperature = IF is_none(t[3]) THEN @ ELSE t[3]]

color(p, c) ==
    LET t == COLOR_MAP[c]
    IN  [p EXCEPT !.hue = t[1], !.saturation = t[2], !.color_temperature = t[3]]

\* variant: the counterpart is unset instead of set to its sentinel
hue_saturation_unsets_temperature(p, h, s) ==
    [p EXCEPT !.hue = Some(h), !.saturation = Some(s), !.color_temperature = None]

\* variant: the counterpart's sentinel is not written
hue_saturation_keeps_temperature(p, h, s) ==
    [p EXCEPT !.hue = Some(h), !.saturation = Some(s)]

hue_saturation(p, h, s) ==
    [p EXCEPT !.hue = Some(h), !.saturation = Some(s), !.color_temperature = Some(0)]

\* variant: the saturation sentinel is not written
color_temperature_keeps_saturation(p, value) ==
    [p EXCEPT !.hue = Some(0), !.color_temperature = Some(value)]

\* variant: the counterpart's sentinels are not written
color_temperature_keeps_hue_saturation(p, value) ==
    [p EXCEPT !.color_temperature = Some(value)]

color_temperature(p, value) ==
    [p EXCEPT !.hue = Some(0), !.saturation = Some(100), !.color_temperature = Some(value)]

\* ------------------------------------------------------------------------
\* validate
\* ------------------------------------------------------------------------

\* variant: device_on is left out of the emptiness test
no_property_ignoring_power(p) ==
    /\ is_none(p.brightness)
    /\ is_none(p.hue)
    /\ is_none(p.saturation)
    /\ is_none(p.color_temperature)

no_property(p) ==
    /\ is_none(p.device_on)
    /\ is_none(p.brightness)
    /\ is_none(p.hue)
    /\ is_none(p.saturation)
    /\ is_none(p.color_temperature)

\* variant: range starting at 0
brightness_invalid_from_zero(p) ==
    /\ is_some(p.brightness)
    /\ ~(p.brightness[1] \in 0..100)

brightness_invalid(p) ==
    /\ is_some(p.brightness)
    /\ ~(p.brightness[1] \in 1..100)

\* variant: range starting at 0
hue_invalid_from_zero(p) ==
    /\ is_some(p.hue)
    /\ unwrap_or_default(p.color_temperature) = 0
    /\ ~(p.hue[1] \in 0..360)

\* variant: hue range-checked whatever the color temperature
hue_invalid_unguarded(p) ==
    /\ is_some(p.hue)
    /\ ~(p.hue[1] \in 1..360)

hue_invalid(p) ==
    /\ is_some(p.hue)
    /\ unwrap_or_default(p.color_temperature) = 0
    /\ ~(p.hue[1] \in 1..360)

\* variant: range starting at 0
saturation_invalid_from_zero(p) ==
    /\ is_some(p.saturation)
    /\ ~(p.saturation[1] \in 0..100)

saturation_invalid(p) ==
    /\ is_some(p.saturation)
    /\ ~(p.saturation[1] \in 1..100)

color_temperature_invalid(p) ==
    /\ is_some(p.color_temperature)
    /\ unwrap_or_default(p.hue) = 0
    /\ unwrap_or(p.saturation, 100) = 100
    /\ ~(p.color_temperature[1] \in 2500..6500)

\* variant: saturation is checked before hue
validate_saturation_first(p) ==
    IF no_property(p)
        THEN Validation("DeviceInfoParams", "requires at least one property")
    ELSE IF brightness_invalid(p)
        THEN Validation("brightness", "must be between 1 and 100")
    ELSE IF saturation_invalid(p)
        THEN Validation("saturation", "must be between 1 and 100")
    ELSE IF hue_invalid(p)
        THEN Validation("hue", "must be between 1 and 360")
    ELSE IF color_temperature_invalid(p)
        THEN Validation("color_temperature", "must be between 2500 and 6500")
    ELSE Ok

validate(p) ==
    IF no_property(p)
        THEN Validation("DeviceInfoParams", "requires at least one property")
    ELSE IF brightness_invalid(p)
        THEN Validation("brightness", "must be between 1 and 100")
    ELSE IF hue_invalid(p)
        THEN Validation("hue", "must be between 1 and 360")
    ELSE IF saturation_invalid(p)
        THEN Validation("saturation", "must be between 1 and 100")
    ELSE IF color_temperature_invalid(p)
        THEN Validation("color_temperature", "must be between 2500 and 6500")
    ELSE Ok

\* ------------------------------------------------------------------------
\* Serialization (derive(Serialize) with skip_serializing_if / rename)
\* ------------------------------------------------------------------------

Fields == {"device_on", "brightness", "hue", "saturation", "color_temperature"}

\* variant: the rename attribute is missing
wire_key_unrenamed(f) == f

\* #[serde(rename = "color_temp")]
wire_key(f) == IF f = "color_temperature" THEN "color_temp" ELSE f

field_of(k) == CHOOSE f \in Fields : wire_key(f) = k

\* skip_serializing_if = "Option::is_none"
serialized_fields(p) == {f \in Fields : ~is_none(p[f])}

\* serde_json::to_value(&self)
to_value(p) ==
    [k \in {wire_key(f) : f \in serialized_fields(p)} |-> p[field_of(k)][1]]

\* ------------------------------------------------------------------------
\* send
\* ------------------------------------------------------------------------

\* variant: the client is called before validation
send_invokes_unvalidated(p) == TRUE

\* variant: the capability's error is swallowed
send_returns_ok(r) == Ok

\* self.validate()? : an Err returns early, before the client is touched
send_invokes(p) == validate(p) = Ok

\* the value of send() is the value of the awaited set_device_info call
send_returns(r) == r

\* which setter a recorded mode call names
mode_of(m) == IF m = None THEN "none" ELSE m[1].op

\* what the most recent power call stages
staged_power ==
    IF power_call = None THEN None
    ELSE IF power_call = Some("on") THEN Some(TRUE)
    ELSE Some(FALSE)

\* the staged argument of the setter about to be called again is out of range
brightness_replaced ==
    brightness_call # None /\ brightness_call[1] \notin 1..100

hue_saturation_replaced ==
    /\ mode_of(mode_call) = "hue_saturation"
    /\ (mode_call[1].hue \notin 1..360 \/ mode_call[1].saturation \notin 1..100)

color_temperature_replaced ==
    /\ mode_of(mode_call) = "color_temperature"
    /\ mode_call[1].value \notin 2500..6500

\* ------------------------------------------------------------------------
\* Actions
\* ------------------------------------------------------------------------

Init ==
    /\ self = new
    /\ pc = "building"
    /\ sent = <<>>
    /\ cap_result = None
    /\ result = None
    /\ mode_call = None
    /\ prev_mode = "none"
    /\ power_call = None
    /\ brightness_call = None
    /\ overwritten = FALSE
    /\ response = None
    /\ parsed = None

\* ColorLightHandler::set() hands out a fresh builder once the previous one was consumed
New ==
    /\ pc = "done"
    /\ self' = new
    /\ pc' = "building"
    /\ sent' = <<>>
    /\ cap_result' = None
    /\ result' = None
    /\ mode_call' = None
    /\ prev_mode' = "none"
    /\ power_call' = None
    /\ brightness_call' = None
    /\ overwritten' = FALSE
    /\ UNCHANGED response_vars

On ==
    /\ pc = "building"
    /\ self' = on(self)
    /\ power_call' = Some("on")
    /\ UNCHANGED <<pc, sent, cap_result, result, mode_call, prev_mode>>
    /\ UNCHANGED <<brightness_call, overwritten, response_vars>>

Off ==
    /\ pc = "building"
    /\ self' = off(self)
    /\ power_call' = Some("off")
    /\ UNCHANGED <<pc, sent, cap_result, result, mode_call, prev_mode>>
    /\ UNCHANGED <<brightness_call, overwritten, response_vars>>

Brightness ==
    /\ pc = "building"
    /\ \E value \in BrightnessValues :
        /\ self' = brightness(self, value)
        /\ brightness_call' = Some(value)
        /\ overwritten' = (overwritten \/ (brightness_replaced /\ value \in 1..100))
    /\ UNCHANGED <<pc, sent, cap_result, result, mode_call, prev_mode, power_call, response_vars>>

SetColor ==
    /\ pc = "building"
    /\ \E c \in Color :
        /\ self' = color(self, c)
        /\ mode_call' = Some([op |-> "color", color |-> c])
    /\ prev_mode' = mode_of(mode_call)
    /\ UNCHANGED <<pc, sent, cap_result, result, power_call, brightness_call, overwritten,
                   response_vars>>

HueSaturation ==
    /\ pc = "building"
    /\ \E h \in HueValues, s \in SaturationValues :
        /\ self' = hue_saturation(self, h, s)
        /\ mode_call' = Some([op |-> "hue_saturation", hue |-> h, saturation |-> s])
        /\ overwritten' =
               (overwritten \/ (hue_saturation_replaced /\ h \in 1..360 /\ s \in 1..100))
    /\ prev_mode' = mode_of(mode_call)
    /\ UNCHANGED <<pc, sent, cap_result, result, power_call, brightness_call, response_vars>>

ColorTemperature ==
    /\ pc = "building"
    /\ \E value \in TemperatureValues :
        /\ self' = color_temperature(self, value)
        /\ mode_call' = Some([op |-> "color_temperature", value |-> value])
        /\ overwritten' =
               (overwritten \/ (color_temperature_replaced /\ value \in 2500..6500))
    /\ prev_mode' = mode_of(mode_call)
    /\ UNCHANGED <<pc, sent, cap_result, result, power_call, brightness_call, response_vars>>

\* send(), up to its suspension on the capability call (or its early return)
Send ==
    /\ pc = "building"
    /\ sent' = IF send_invokes(self) THEN Append(sent, to_value(self)) ELSE sent
    /\ IF validate(self) = Ok
          THEN /\ pc' = "awaiting"
               /\ result' = None
          ELSE /\ pc' = "done"
               /\ result' = Some(validate(self))
    /\ UNCHANGED <<self, cap_result, mode_call, prev_mode>>
    /\ UNCHANGED <<power_call, brightness_call, overwritten, response_vars>>

\* the awaited set_device_info call completes and send() returns
Return ==
    /\ pc = "awaiting"
    /\ \E r \in CapabilityResults :
        /\ cap_result' = Some(r)
        /\ result' = Some(send_returns(r))
    /\ pc' = "done"
    /\ UNCHANGED <<self, sent, mode_call, prev_mode>>
    /\ UNCHANGED <<power_call, brightness_call, overwritten, response_vars>>

Next ==
    \/ New
    \/ On
    \/ Off
    \/ Brightness
    \/ SetColor
    \/ HueSaturation
    \/ ColorTemperature
    \/ Send
    \/ Return

Spec == Init /\ [][Next]_vars

\* the chains that never call color()
NextNoColor ==
    \/ New
    \/ On
    \/ Off
    \/ Brightness
    \/ HueSaturation
    \/ ColorTemperature
    \/ Send
    \/ Return

SpecNoColor == Init /\ [][NextNoColor]_vars

\* ------------------------------------------------------------------------
\* Default-state responses (responses/device_info_result/default_state.rs)
\* ------------------------------------------------------------------------

DefaultStateType == {"Custom", "LastStates"}

DefaultPowerType == {"AlwaysOn", "LastStates"}

\* variant: the rename_all attribute is missing, variants keep their names
snake_case_unrenamed(variant) == variant

\* #[serde(rename_all = "snake_case")] on the variant names
snake_case(variant) ==
    CASE variant = "Custom"     -> "custom"
      [] variant = "LastStates" -> "last_states"
      [] variant = "AlwaysOn"   -> "always_on"

DeserializeError == [tag |-> "DeserializeError"]

Deserialized(v) == [tag |-> "Ok", value |-> v]

\* derive(Deserialize) of a unit-variant enum: the tag must be a variant's name
deserialize_variant(variants, tag) ==
    IF \E v \in variants : snake_case(v) = tag
        THEN Deserialized(CHOOSE v \in variants : snake_case(v) = tag)
        ELSE DeserializeError

\* pub value: u8
deserialize_u8(n) ==
    IF n \in 0..U8Max THEN Deserialized(n) ELSE DeserializeError

\* derive(Deserialize) of DefaultBrightnessState { type, value }
DefaultBrightnessState(j) ==
    LET t == deserialize_variant(DefaultStateType, j.type)
        v == deserialize_u8(j.value)
    IN  IF t = DeserializeError \/ v = DeserializeError
            THEN DeserializeError
            ELSE Deserialized([type |-> t.value, value |-> v.value])

\* tag strings a device response may carry
Tags ==
    {"custom", "last_states", "always_on", "Custom", "LastStates", "AlwaysOn",
     "lastStates", "last-states", "default", ""}

\* integers a device response may carry as the brightness value
ResponseValues == 0..(U8Max + 1)

Responses ==
    [kind : {"default_brightness"}, type : Tags, value : ResponseValues]
        \cup [kind : {"default_power"}, type : Tags]

Receive ==
    /\ response = None
    /\ \E j \in Responses : response' = Some(j)
    /\ UNCHANGED <<parsed, builder_vars>>

DeserializeBrightness ==
    /\ response # None
    /\ parsed = None
    /\ response[1].kind = "default_brightness"
    /\ parsed' = Some(DefaultBrightnessState(response[1]))
    /\ UNCHANGED <<response, builder_vars>>

DeserializePower ==
    /\ response # None
    /\ parsed = None
    /\ response[1].kind = "default_power"
    /\ parsed' = Some(deserialize_variant(DefaultPowerType, response[1].type))
    /\ UNCHANGED <<response, builder_vars>>

\* the caller of the response parser takes the result
Consume ==
    /\ parsed # None
    /\ response' = None
    /\ parsed' = None
    /\ UNCHANGED builder_vars

NextDefaultState ==
    \/ Receive
    \/ DeserializeBrightness
    \/ DeserializePower
    \/ Consume

SpecDefaultState == Init /\ [][NextDefaultState]_vars

\* ------------------------------------------------------------------------
\* Properties
\* ------------------------------------------------------------------------

returned == pc = "done"

is_validation_error(r) == r # None /\ r[1].tag = "Validation"

brightness_unset_or_valid ==
    is_none(self.brightness) \/ self.brightness[1] \in 1..100

\* validation passed: exactly the encoded payload was handed over, once, and
\* send() returned what the capability returned
delegated ==
    /\ sent = <<to_value(self)>>
    /\ cap_result # None
    /\ result = cap_result
    /\ ~is_validation_error(result)

\* C1: whenever send() returned a validation error, no payload was handed to
\* the capability by that builder.
C1_ValidationErrorMeansNoInvocation ==
    is_validation_error(result) => sent = <<>>

C1_Witness ==
    /\ returned
    /\ is_validation_error(result)
    /\ is_some(self.device_on)
    /\ is_some(self.brightness)
    /\ mode_call # None

\* C2: when validation succeeds the capability is invoked exactly once with
\* the encoded payload and send() returns that call's result unchanged; no
\* builder ever causes more than one invocation.
C2_DelegatesOnceAndPropagates ==
    /\ Len(sent) <= 1
    /\ pc = "awaiting" => sent = <<to_value(self)>>
    /\ (returned /\ validate(self) = Ok) => delegated

C2_Witness ==
    /\ returned
    /\ sent = <<to_value(self)>>
    /\ cap_result = Some(CapabilityError)
    /\ result = Some(CapabilityError)

\* C3: submitting a builder with nothing set fails with the
\* "DeviceInfoParams" / "requires at least one property" error, and that
\* error is returned only when all five fields are unset.
C3_EmptyBuilderError ==
    LET e == Some(Validation("DeviceInfoParams", "requires at least one property"))
    IN  /\ (returned /\ self = new) => result = e
        /\ result = e => /\ is_none(self.device_on)
                         /\ is_none(self.brightness)
                         /\ is_none(self.hue)
                         /\ is_none(self.saturation)
                         /\ is_none(self.color_temperature)

C3_Witness ==
    /\ returned
    /\ self = new
    /\ result = Some(Validation("DeviceInfoParams", "requires at least one property"))

only_brightness_staged ==
    /\ is_some(self.brightness)
    /\ is_none(self.device_on)
    /\ is_none(self.hue)
    /\ is_none(self.saturation)
    /\ is_none(self.color_temperature)

\* C4: with brightness=v the only staged field, submit passes validation and
\* invokes the capability when v is in [1,100], and otherwise fails with the
\* "brightness" / "must be between 1 and 100" error without invoking it.
C4_BrightnessOnly ==
    (returned /\ only_brightness_staged) =>
        IF self.brightness[1] \in 1..100
            THEN delegated
            ELSE /\ result = Some(Validation("brightness", "must be between 1 and 100"))
                 /\ sent = <<>>

C4_Witness ==
    /\ returned
    /\ only_brightness_staged
    /\ self.brightness = Some(101)
    /\ result = Some(Validation("brightness", "must be between 1 and 100"))
    /\ sent = <<>>

last_is_temperature(v) ==
    mode_call = Some([op |-> "color_temperature", value |-> v])

last_is_hue_saturation(h, s) ==
    mode_call = Some([op |-> "hue_saturation", hue |-> h, saturation |-> s])

\* C5: when color_temperature(v) with v outside [2500,6500] is the most recent
\* mode setter and brightness is unset or valid, submit fails with the
\* "color_temperature" / "must be between 2500 and 6500" error.
C5_TemperatureRangeError ==
    \A v \in TemperatureValues \ (2500..6500) :
        (returned /\ last_is_temperature(v) /\ brightness_unset_or_valid) =>
            result = Some(Validation("color_temperature", "must be between 2500 and 6500"))

\* C6: when hue_saturation(h, s) with h outside [1,360] is the most recent
\* mode setter and brightness is unset or valid, submit fails with the
\* "hue" / "must be between 1 and 360" error, whatever s is.
C6_HueRangeError ==
    \A h \in HueValues \ (1..360), s \in SaturationValues :
        (returned /\ last_is_hue_saturation(h, s) /\ brightness_unset_or_valid) =>
            /\ result = Some(Validation("hue", "must be between 1 and 360"))
            /\ sent = <<>>

C6_Witness ==
    /\ returned
    /\ last_is_hue_saturation(361, 101)
    /\ prev_mode = "color_temperature"
    /\ self.brightness = Some(100)
    /\ result = Some(Validation("hue", "must be between 1 and 360"))

\* C7: when hue_saturation(h, s) with h in [1,360] and s outside [1,100] is
\* the most recent mode setter and brightness is unset or valid, submit fails
\* with the "saturation" / "must be between 1 and 100" error.
C7_SaturationRangeError ==
    \A h \in HueValues \cap (1..360), s \in SaturationValues \ (1..100) :
        (returned /\ last_is_hue_saturation(h, s) /\ brightness_unset_or_valid) =>
            /\ result = Some(Validation("saturation", "must be between 1 and 100"))
            /\ sent = <<>>

C7_Witness ==
    /\ returned
    /\ last_is_hue_saturation(360, 0)
    /\ is_none(self.brightness)
    /\ result = Some(Validation("saturation", "must be between 1 and 100"))

\* C8: after color_temperature(v), whatever setters ran before it, the staged
\* state is hue=0, saturation=100, color_temperature=v.
C8_TemperatureModeWins ==
    \A v \in TemperatureValues :
        last_is_temperature(v) =>
            /\ self.hue = Some(0)
            /\ self.saturation = Some(100)
            /\ self.color_temperature = Some(v)

C8_Witness ==
    /\ pc = "building"
    /\ last_is_temperature(3000)
    /\ prev_mode = "hue_saturation"
    /\ self.hue = Some(0)
    /\ self.saturation = Some(100)
    /\ self.color_temperature = Some(3000)

\* C9: after hue_saturation(h, s), whatever setters ran before it, the staged
\* state is hue=h, saturation=s, color_temperature=0.
C9_HueSaturationModeWins ==
    \A h \in HueValues, s \in SaturationValues :
        last_is_hue_saturation(h, s) =>
            /\ self.hue = Some(h)
            /\ self.saturation = Some(s)
            /\ self.color_temperature = Some(0)

C9_Witness ==
    /\ pc = "building"
    /\ last_is_hue_saturation(50, 50)
    /\ prev_mode = "color_temperature"
    /\ self.hue = Some(50)
    /\ self.saturation = Some(50)
    /\ self.color_temperature = Some(0)

last_mode_used_correctly ==
    \/ \E v \in TemperatureValues \cap (2500..6500) : last_is_temperature(v)
    \/ \E h \in HueValues \cap (1..360), s \in SaturationValues \cap (1..100) :
           last_is_hue_saturation(h, s)

\* C10: when the most recent mode setter was called with in-range arguments
\* and brightness is unset or valid, submit passes validation and the
\* capability is invoked, whatever mode setters were called earlier.
C10_CorrectModeNeverRejected ==
    (returned /\ last_mode_used_correctly /\ brightness_unset_or_valid) => delegated

C10_Witness ==
    /\ returned
    /\ last_is_temperature(6500)
    /\ prev_mode = "hue_saturation"
    /\ self.hue = Some(0)
    /\ result = Some(Ok)
    /\ sent = <<to_value(self)>>

carries(j, key, staged) ==
    IF is_some(staged) THEN key \in DOMAIN j /\ j[key] = staged[1]
                       ELSE key \notin DOMAIN j

\* C11: the payload handed to the capability has exactly the set fields as
\* keys, under the wire keys device_on, brightness, hue, saturation and
\* color_temp, each with its staged value; an unset field is omitted. A
\* builder with only brightness=50 encodes to the brightness key alone.
C11_PayloadIsTheSetFields ==
    sent # <<>> =>
        LET j == sent[1]
        IN  /\ DOMAIN j \subseteq {"device_on", "brightness", "hue", "saturation", "color_temp"}
            /\ carries(j, "device_on", self.device_on)
            /\ carries(j, "brightness", self.brightness)
            /\ carries(j, "hue", self.hue)
            /\ carries(j, "saturation", self.saturation)
            /\ carries(j, "color_temp", self.color_temperature)
            /\ (only_brightness_staged /\ self.brightness = Some(50)) =>
                   j = [brightness |-> 50]

C11_Witness ==
    /\ sent # <<>>
    /\ DOMAIN sent[1] = {"device_on", "color_temp"}
    /\ sent[1]["color_temp"] = 2700
    /\ sent[1]["device_on"] = FALSE
    /\ is_none(self.hue)

last_is_color(c) == mode_call = Some([op |-> "color", color |-> c])

C13_DefaultStateTags ==
    parsed # None =>
        LET j == response[1]
            r == parsed[1]
        IN  IF j.kind = "default_brightness"
                THEN /\ (j.type = "custom" /\ j.value \in 0..255) =>
                            r = Deserialized([type |-> "Custom", value |-> j.value])
                     /\ (j.type = "last_states" /\ j.value \in 0..255) =>
                            r = Deserialized([type |-> "LastStates", value |-> j.value])
                     /\ j.type \notin {"custom", "last_states"} => r = DeserializeError
                ELSE /\ j.type = "always_on" => r = Deserialized("AlwaysOn")
                     /\ j.type = "last_states" => r = Deserialized("LastStates")
                     /\ j.type \notin {"always_on", "last_states"} => r = DeserializeError

C13_Witness ==
    /\ response = Some([kind |-> "default_brightness", type |-> "custom", value |-> 42])
    /\ parsed = Some(Deserialized([type |-> "Custom", value |-> 42]))

\* the final calls of the chain (color() aside) all had in-range arguments
final_calls_in_range ==
    /\ is_some(self.device_on) \/ brightness_call # None \/ mode_call # None
    /\ brightness_call = None \/ brightness_call[1] \in 1..100
    /\ mode_call = None \/ last_mode_used_correctly

\* C14: no setter fails or rejects its argument when called (while the chain
\* is being built nothing has been returned or sent, and the argument is
\* staged as given, in range or not), and submit judges only the final staged
\* state: when the last call of each setter had in-range arguments, submit
\* passes validation even if earlier calls of the same setter did not.
C14_ValidatedOnlyAtSubmit ==
    /\ pc = "building" => (result = None /\ sent = <<>>)
    /\ self.brightness = brightness_call
    /\ \A h \in HueValues, s \in SaturationValues :
           last_is_hue_saturation(h, s) => (self.hue = Some(h) /\ self.saturation = Some(s))
    /\ \A v \in TemperatureValues :
           last_is_temperature(v) => self.color_temperature = Some(v)
    /\ (returned /\ final_calls_in_range) => delegated

C14_Witness ==
    /\ returned
    /\ overwritten
    /\ brightness_call = Some(50)
    /\ mode_call = None
    /\ is_none(self.device_on)
    /\ result = Some(Ok)

\* the most recent mode setter call, replayed on builder p
replay_mode(p, m) ==
    IF m = None THEN p
    ELSE IF m[1].op = "color" THEN color(p, m[1].color)
    ELSE IF m[1].op = "hue_saturation" THEN hue_saturation(p, m[1].hue, m[1].saturation)
    ELSE color_temperature(p, m[1].value)

\* the builder of the shortest chain with the same final power, final
\* brightness and most recent mode setter call
shortest_chain ==
    replay_mode([new EXCEPT !.device_on = self.device_on,
                            !.brightness = self.brightness], mode_call)

\* C15: the outcome of submit and the payload are those of the chain that
\* sets only the final power, the final brightness and the most recent mode
\* setter call: they depend on nothing else of the calls made.
C15_OutcomeDependsOnFinalCalls ==
    returned =>
        IF validate(shortest_chain) = Ok
            THEN /\ sent = <<to_value(shortest_chain)>>
                 /\ ~is_validation_error(result)
            ELSE /\ sent = <<>>
                 /\ result = Some(validate(shortest_chain))

C15_Witness ==
    /\ returned
    /\ last_is_temperature(3000)
    /\ prev_mode = "hue_saturation"
    /\ overwritten
    /\ self.device_on = Some(FALSE)
    /\ power_call = Some("off")
    /\ sent = <<to_value(shortest_chain)>>

\* C16: submit reports one error, chosen by the precedence empty set,
\* brightness, hue, saturation, color_temperature among the rules the final
\* staged state violates.
C16_ErrorPrecedence ==
    returned =>
        /\ no_property(self) =>
               result = Some(Validation("DeviceInfoParams", "requires at least one property"))
        /\ brightness_invalid(self) =>
               result = Some(Validation("brightness", "must be between 1 and 100"))
        /\ (~brightness_invalid(self) /\ hue_invalid(self)) =>
               result = Some(Validation("hue", "must be between 1 and 360"))
        /\ (~brightness_invalid(self) /\ ~hue_invalid(self) /\ saturation_invalid(self)) =>
               result = Some(Validation("saturation", "must be between 1 and 100"))
        /\ (/\ ~brightness_invalid(self)
            /\ ~hue_invalid(self)
            /\ ~saturation_invalid(self)
            /\ color_temperature_invalid(self)) =>
               result = Some(Validation("color_temperature", "must be between 2500 and 6500"))

C16_Witness ==
    /\ returned
    /\ last_is_hue_saturation(0, 0)
    /\ is_none(self.brightness)
    /\ hue_invalid(self)
    /\ saturation_invalid(self)
    /\ result = Some(Validation("hue", "must be between 1 and 360"))

color_keys == {"hue", "saturation", "color_temp"}

\* C18: in every state of a chain that never calls color(), hue, saturation
\* and color_temperature are all unset or all set, and when set either
\* color_temperature = 0 or hue = 0 and saturation = 100; a payload carries
\* all three color keys or none.
C18_OneModeActive ==
    /\ \/ /\ is_none(self.hue)
          /\ is_none(self.saturation)
          /\ is_none(self.color_temperature)
       \/ /\ is_some(self.hue)
          /\ is_some(self.saturation)
          /\ is_some(self.color_temperature)
          /\ \/ self.color_temperature = Some(0)
             \/ (self.hue = Some(0) /\ self.saturation = Some(100))
    /\ sent # <<>> =>
           (color_keys \subseteq DOMAIN sent[1] \/ color_keys \cap DOMAIN sent[1] = {})

C18_Witness ==
    /\ returned
    /\ prev_mode = "color_temperature"
    /\ last_is_hue_saturation(360, 100)
    /\ sent # <<>>
    /\ color_keys \subseteq DOMAIN sent[1]
    /\ sent[1]["color_temp"] = 0

====
